---- MODULE Spec2Model ----
(***************************************************************************)
(* Instability prediction of the Zabbix dashboard: the predictor hook      *)
(* useInstabilityPrediction over CriticalMetrics, and the proxy's          *)
(* history.get calls that deliver its input.                               *)
(*                                                                         *)
(* Numbers: sample values are integers; a mean is kept as the pair         *)
(* (sum, count) and every comparison of a mean with a threshold is done by *)
(* cross-multiplication, so no rounding is introduced.                     *)
(***************************************************************************)
EXTENDS Integers, Sequences, FiniteSets

VARIABLES
    metrics,      \* the argument of useInstabilityPrediction
    now,          \* value Date.now() returns during the call (ms since epoch)
    prediction,   \* what the call returned (or that it has not run / threw)
    pc,           \* "fetch": the query is in flight; "ready": the hook is about to
                  \* run; "done": it has run
    baseline,     \* the input and the result of the previous run of the hook
    zabbix,       \* the history the Zabbix server holds for the selected host
    calls,        \* two calls of the hook in progress, each with its locals
    page          \* the Prediction page: selection, query cache, requests

vars == <<metrics, now, prediction, pc, baseline, zabbix, calls, page>>

----------------------------------------------------------------------------
(* Bounds of the model *)

\* longest ping sequence of the deep specification
MaxPing == 3
\* longest latency sequence of the deep specification
MaxLatency == 5
\* longest cpu or memory sequence of the deep specification
MaxUsage == 1
\* longest sequence of the broad specification
MaxLen == 1
\* most rows the server holds for one item
MaxHistory == 4
\* most items one search pattern finds on the host
MaxItems == 1
\* longest ping sequence of the comparison of failure rates
MaxPolled == 10
\* longest ping history given to the earlier variant of the predictor
MaxEarlier == 6

----------------------------------------------------------------------------
(* Time *)

MinuteMs == 60 * 1000
\* epoch base of the model's clock
Now0 == 1000 * MinuteMs
\* a sample taken one minute before Now0
TB == Now0 - MinuteMs
\* a sample taken twelve minutes before Now0
TA == Now0 - 12 * MinuteMs
\* a sample taken forty minutes before Now0
TOld == Now0 - 40 * MinuteMs

----------------------------------------------------------------------------
(* Data *)

\* ZabbixHistoryData
Sample(t, v) == [timestamp |-> t, value |-> v]

\* etaMinutes: number | null; null is written NullEta
NullEta == 0 - 1

\* CriticalMetrics | null.  isNull: the argument is null.  missing: the names
\* of the properties that are undefined on the object.
Metrics(p, l, c, m) ==
    [isNull |-> FALSE, missing |-> {}, ping |-> p, latency |-> l, cpu |-> c, memory |-> m]

NullMetrics ==
    [isNull |-> TRUE, missing |-> {}, ping |-> <<>>, latency |-> <<>>, cpu |-> <<>>,
     memory |-> <<>>]

\* all sequences over S of length at most n
RECURSIVE SeqsUpTo(_, _)
SeqsUpTo(S, n) ==
    IF n = 0 THEN {<<>>}
    ELSE LET shorter == SeqsUpTo(S, n - 1)
         IN  shorter \cup {Append(s, x) : s \in {q \in shorter : Len(q) = n - 1}, x \in S}

----------------------------------------------------------------------------
(* Array helpers, as the code uses them *)

\* the window is open at its start: p.timestamp > cutoff
FilterSince_Strict(seq, cutoff) == SelectSeq(seq, LAMBDA s : s.timestamp > cutoff)

\* Array.prototype.filter with the predicate p.timestamp >= cutoff
FilterSince(seq, cutoff) == SelectSeq(seq, LAMBDA s : s.timestamp >= cutoff)

\* arr.slice(-k) for 0 < k
SliceLast(seq, k) ==
    IF Len(seq) <= k THEN seq ELSE SubSeq(seq, Len(seq) - k + 1, Len(seq))

\* arr.slice(0, k)
SliceTo(seq, k) == SubSeq(seq, 1, IF k < Len(seq) THEN k ELSE Len(seq))

\* arr.slice(k)
SliceFrom(seq, k) == SubSeq(seq, k + 1, Len(seq))

\* arr.reduce((sum, x) => sum + x.value, 0)
RECURSIVE SumValues(_)
SumValues(seq) == IF seq = <<>> THEN 0 ELSE Head(seq).value + SumValues(Tail(seq))

\* Math.max(...arr.map(x => x.value)) of a non-empty array
RECURSIVE MaxValue(_)
MaxValue(seq) ==
    IF Len(seq) = 1 THEN Head(seq).value
    ELSE LET m == MaxValue(Tail(seq))
         IN  IF Head(seq).value > m THEN Head(seq).value ELSE m

\* Math.min(a, b)
MathMin(a, b) == IF a < b THEN a ELSE b

\* (sum / n).toFixed(1), as a number of tenths (sum >= 0, n > 0)
ToFixed1(sum, n) == (20 * sum + n) \div (2 * n)

\* JavaScript truthiness of a number | null
Truthy(e) == e # NullEta /\ e # 0

----------------------------------------------------------------------------
(* The accumulators of the scoring body: riskScore, factors, etaMinutes *)

Acc0 == [riskScore |-> 0, factors |-> <<>>, etaMinutes |-> NullEta]

\* a factor string, written without its diacritics; value is the number
\* formatted into it, in tenths (NoValue for a fixed text)
NoValue == 0 - 1
Factor(text, value) == [text |-> text, value |-> value]

\* the points are added and no factor is pushed
Fire_ScoreOnly(acc, pts, f) == [acc EXCEPT !.riskScore = @ + pts]

\* riskScore += pts; factors.push(f)
Fire(acc, pts, f) ==
    [acc EXCEPT !.riskScore = @ + pts, !.factors = Append(@, f)]

WithEta(acc, e) == [acc EXCEPT !.etaMinutes = e]

\* the later proposal replaces the earlier one
ProposeEta_Overwrite(acc, e) == WithEta(acc, e)

\* etaMinutes = etaMinutes ? Math.min(etaMinutes, e) : e
ProposeEta(acc, e) ==
    WithEta(acc, IF Truthy(acc.etaMinutes) THEN MathMin(acc.etaMinutes, e) ELSE e)

\* an ETA proposed before the consecutive-failure rule is kept
ProposeEtaConsecutive_KeepsEarlier(acc) ==
    WithEta(acc, IF Truthy(acc.etaMinutes) THEN acc.etaMinutes ELSE 1)

\* the host is taken to be in trouble already: etaMinutes = 0
ProposeEtaConsecutive_Zero(acc) == WithEta(acc, 0)

\* etaMinutes = Math.min(etaMinutes || 1, 1)
ProposeEtaConsecutive(acc) ==
    WithEta(acc, MathMin(IF Truthy(acc.etaMinutes) THEN acc.etaMinutes ELSE 1, 1))

----------------------------------------------------------------------------
(* Ping analysis *)

PingFailures(recentPing) == Len(SelectSeq(recentPing, LAMBDA p : p.value = 0))

\* the points of the two lower tiers are exchanged
PingRateRule_TiersSwapped(acc, recentPing) ==
    LET f == PingFailures(recentPing)
        n == Len(recentPing)
    IN  IF 10 * f >= 5 * n
        THEN WithEta(Fire(acc, 60, Factor("Alto indice de falhas de ping", NoValue)), 2)
        ELSE IF 10 * f >= 3 * n
        THEN WithEta(Fire(acc, 20, Factor("Falhas intermitentes de ping", NoValue)), 5)
        ELSE IF f > 0
        THEN Fire(acc, 40, Factor("Falhas ocasionais de ping", NoValue))
        ELSE acc

\* a rate equal to 0.5 or to 0.3 falls into the lower tier
PingRateRule_StrictTiers(acc, recentPing) ==
    LET f == PingFailures(recentPing)
        n == Len(recentPing)
    IN  IF 10 * f > 5 * n
        THEN WithEta(Fire(acc, 60, Factor("Alto indice de falhas de ping", NoValue)), 2)
        ELSE IF 10 * f > 3 * n
        THEN WithEta(Fire(acc, 40, Factor("Falhas intermitentes de ping", NoValue)), 5)
        ELSE IF f > 0
        THEN Fire(acc, 20, Factor("Falhas ocasionais de ping", NoValue))
        ELSE acc

\* the ladder on pingFailureRate = pingFailures / recentPing.length
PingRateRule(acc, recentPing) ==
    LET f == PingFailures(recentPing)
        n == Len(recentPing)
    IN  IF 10 * f >= 5 * n
        THEN WithEta(Fire(acc, 60, Factor("Alto indice de falhas de ping", NoValue)), 2)
        ELSE IF 10 * f >= 3 * n
        THEN WithEta(Fire(acc, 40, Factor("Falhas intermitentes de ping", NoValue)), 5)
        ELSE IF f > 0
        THEN Fire(acc, 20, Factor("Falhas ocasionais de ping", NoValue))
        ELSE acc

\* lastThreePings.every(p => p.value === 0)
AllFailed(pings) == \A i \in 1..Len(pings) : pings[i].value = 0

PingConsecutiveRule(acc, veryRecentPing) ==
    IF Len(veryRecentPing) >= 3 /\ AllFailed(SliceLast(veryRecentPing, 3))
    THEN ProposeEtaConsecutive(
             Fire(acc, 30, Factor("3+ falhas consecutivas de ping", NoValue)))
    ELSE acc

PingAnalysis(acc, recentPing, veryRecentPing) ==
    IF Len(recentPing) > 0
    THEN PingConsecutiveRule(PingRateRule(acc, recentPing), veryRecentPing)
    ELSE acc

----------------------------------------------------------------------------
(* Latency analysis *)

\* an average equal to 200 or to 100 already counts
LatencyAvgRule_Inclusive(acc, recentLatency) ==
    LET s == SumValues(recentLatency)
        n == Len(recentLatency)
    IN  IF s >= 200 * n
        THEN ProposeEta(Fire(acc, 25, Factor("Latencia media alta", ToFixed1(s, n))), 10)
        ELSE IF s >= 100 * n
        THEN Fire(acc, 15, Factor("Latencia elevada", ToFixed1(s, n)))
        ELSE acc

LatencyAvgRule(acc, recentLatency) ==
    LET s == SumValues(recentLatency)
        n == Len(recentLatency)
    IN  IF s > 200 * n
        THEN ProposeEta(Fire(acc, 25, Factor("Latencia media alta", ToFixed1(s, n))), 10)
        ELSE IF s > 100 * n
        THEN Fire(acc, 15, Factor("Latencia elevada", ToFixed1(s, n)))
        ELSE acc

LatencySpikeRule(acc, recentLatency) ==
    LET m == MaxValue(recentLatency)
    IN  IF m > 500
        THEN Fire(acc, 20, Factor("Picos de latencia extrema", ToFixed1(m, 1)))
        ELSE acc

\* secondAvg > firstAvg * 1.3, with firstAvg = s1/n1 and secondAvg = s2/n2
LatencyTrendRule(acc, recentLatency) ==
    IF Len(recentLatency) >= 5
    THEN LET half == Len(recentLatency) \div 2
             firstHalf == SliceTo(recentLatency, half)
             secondHalf == SliceFrom(recentLatency, half)
             s1 == SumValues(firstHalf)
             n1 == Len(firstHalf)
             s2 == SumValues(secondHalf)
             n2 == Len(secondHalf)
         IN  IF 10 * s2 * n1 > 13 * s1 * n2
             THEN ProposeEta(
                      Fire(acc, 15, Factor("Tendencia de aumento na latencia", NoValue)), 15)
             ELSE acc
    ELSE acc

\* the spike is examined before the average
LatencyAnalysis_SpikeFirst(acc, recentLatency) ==
    IF Len(recentLatency) > 0
    THEN LatencyTrendRule(
             LatencyAvgRule(LatencySpikeRule(acc, recentLatency), recentLatency),
             recentLatency)
    ELSE acc

LatencyAnalysis(acc, recentLatency) ==
    IF Len(recentLatency) > 0
    THEN LatencyTrendRule(
             LatencySpikeRule(LatencyAvgRule(acc, recentLatency), recentLatency),
             recentLatency)
    ELSE acc

----------------------------------------------------------------------------
(* CPU analysis *)

\* an average equal to 90 or to 80 already counts
CpuAvgRule_Inclusive(acc, recentCpu) ==
    LET s == SumValues(recentCpu)
        n == Len(recentCpu)
    IN  IF s >= 90 * n
        THEN ProposeEta(Fire(acc, 20, Factor("CPU critica", ToFixed1(s, n))), 20)
        ELSE IF s >= 80 * n
        THEN Fire(acc, 10, Factor("CPU alta", ToFixed1(s, n)))
        ELSE acc

CpuAvgRule(acc, recentCpu) ==
    LET s == SumValues(recentCpu)
        n == Len(recentCpu)
    IN  IF s > 90 * n
        THEN ProposeEta(Fire(acc, 20, Factor("CPU critica", ToFixed1(s, n))), 20)
        ELSE IF s > 80 * n
        THEN Fire(acc, 10, Factor("CPU alta", ToFixed1(s, n)))
        ELSE acc

CpuSpikeRule(acc, recentCpu) ==
    LET m == MaxValue(recentCpu)
    IN  IF m > 95
        THEN Fire(acc, 15, Factor("Picos de CPU extrema", ToFixed1(m, 1)))
        ELSE acc

\* the cpu rules are skipped once the score is already critical
CpuAnalysis_SkipWhenCritical(acc, recentCpu) ==
    IF Len(recentCpu) > 0 /\ acc.riskScore < 80
    THEN CpuSpikeRule(CpuAvgRule(acc, recentCpu), recentCpu)
    ELSE acc

CpuAnalysis(acc, recentCpu) ==
    IF Len(recentCpu) > 0
    THEN CpuSpikeRule(CpuAvgRule(acc, recentCpu), recentCpu)
    ELSE acc

----------------------------------------------------------------------------
(* Memory analysis *)

\* critical memory proposes an ETA of 15 minutes
MemoryAvgRule_ProposesEta(acc, recentMemory) ==
    LET s == SumValues(recentMemory)
        n == Len(recentMemory)
    IN  IF s > 90 * n
        THEN ProposeEta(Fire(acc, 15, Factor("Memoria critica", ToFixed1(s, n))), 15)
        ELSE IF s > 85 * n
        THEN Fire(acc, 8, Factor("Memoria alta", ToFixed1(s, n)))
        ELSE acc

MemoryAvgRule(acc, recentMemory) ==
    LET s == SumValues(recentMemory)
        n == Len(recentMemory)
    IN  IF s > 90 * n
        THEN Fire(acc, 15, Factor("Memoria critica", ToFixed1(s, n)))
        ELSE IF s > 85 * n
        THEN Fire(acc, 8, Factor("Memoria alta", ToFixed1(s, n)))
        ELSE acc

\* the memory analysis does not look at the cpu window
MemoryGuard_MemoryOnly(recentCpu, memory) == Len(memory) > 0

\* if (recentCpu.length > 0 && memory.length > 0) { ... }
MemoryGuard(recentCpu, memory) == Len(recentCpu) > 0 /\ Len(memory) > 0

\* the memory rule averages the whole memory array
MemoryAnalysis_Unfiltered(acc, recentCpu, memory, recent15min) ==
    IF MemoryGuard(recentCpu, memory) THEN MemoryAvgRule(acc, memory) ELSE acc

MemoryAnalysis(acc, recentCpu, memory, recent15min) ==
    IF MemoryGuard(recentCpu, memory)
    THEN LET recentMemory == FilterSince(memory, recent15min)
         IN  IF Len(recentMemory) > 0 THEN MemoryAvgRule(acc, recentMemory) ELSE acc
    ELSE acc

----------------------------------------------------------------------------
(* Classification and result *)

\* the critical class starts at 90
RiskLevelOf_Critical90(riskScore) ==
    IF riskScore >= 90 THEN "critical"
    ELSE IF riskScore >= 50 THEN "high"
    ELSE IF riskScore >= 25 THEN "medium"
    ELSE "low"

RiskLevelOf(riskScore) ==
    IF riskScore >= 80 THEN "critical"
    ELSE IF riskScore >= 50 THEN "high"
    ELSE IF riskScore >= 25 THEN "medium"
    ELSE "low"

RecommendationOf(riskLevel) ==
    IF riskLevel = "critical"
    THEN "ACAO IMEDIATA: Verificar conectividade e recursos do host"
    ELSE IF riskLevel = "high"
    THEN "Monitorar de perto e considerar manutencao preventiva"
    ELSE IF riskLevel = "medium"
    THEN "Acompanhar evolucao das metricas"
    ELSE "Sistema operando normalmente"

\* the sum is returned as it is
ClampScore_None(riskScore) == riskScore

\* Math.min(riskScore, 100)
ClampScore(riskScore) == MathMin(riskScore, 100)

\* PredictionResult, with status "ok"; the two other outcomes of a call
Result(level, score, eta, factors, recommendation, t) ==
    [status |-> "ok", riskLevel |-> level, riskScore |-> score, etaMinutes |-> eta,
     factors |-> factors, recommendation |-> recommendation, lastUpdate |-> t]

NotRun == [status |-> "none"]
Threw == [status |-> "threw"]

DefaultResult(t) == Result("low", 0, NullEta, <<>>, "Aguardando dados...", t)

\* only a null argument gets the default result
AwaitingData_NullOnly(m) == m.isNull

\* !metrics || !metrics.ping.length, for a ping that is an array
AwaitingData(m) == m.isNull \/ Len(m.ping) = 0

\* the scoring body, lines 287-437, for an object whose four arrays exist
Score(m, t) ==
    LET recent15min == t - 15 * MinuteMs
        recent5min == t - 5 * MinuteMs
        recentPing == FilterSince(m.ping, recent15min)
        recentLatency == FilterSince(m.latency, recent15min)
        recentCpu == FilterSince(m.cpu, recent15min)
        veryRecentPing == FilterSince(m.ping, recent5min)
        a1 == PingAnalysis(Acc0, recentPing, veryRecentPing)
        a2 == LatencyAnalysis(a1, recentLatency)
        a3 == CpuAnalysis(a2, recentCpu)
        a4 == MemoryAnalysis(a3, recentCpu, m.memory, recent15min)
        riskLevel == RiskLevelOf(a4.riskScore)
    IN  Result(riskLevel, ClampScore(a4.riskScore), a4.etaMinutes, a4.factors,
               RecommendationOf(riskLevel), t)

\* a property read or a method call on undefined raises a TypeError
\* metrics.ping.length on line 276
GuardThrows(m) == ~m.isNull /\ "ping" \in m.missing

\* latency.filter (295), cpu.filter (296), and memory.length (391), which is
\* evaluated only when recentCpu.length > 0
ScoreThrows(m, t) ==
    \/ "latency" \in m.missing
    \/ "cpu" \in m.missing
    \/ /\ "memory" \in m.missing
       /\ Len(FilterSince(m.cpu, t - 15 * MinuteMs)) > 0

\* useInstabilityPrediction(metrics), evaluated at clock t
Predict(m, t) ==
    IF GuardThrows(m) THEN Threw
    ELSE IF AwaitingData(m) THEN DefaultResult(t)
    ELSE IF ScoreThrows(m, t) THEN Threw
    ELSE Score(m, t)

\* the receiver of filter is filtered in place
AfterFilter_InPlace(seq, cutoff) == FilterSince(seq, cutoff)

\* what a call arr.filter(x => x.timestamp >= cutoff) leaves in arr: filter
\* builds a new array and does not touch its receiver
AfterFilter(seq, cutoff) == seq

\* the argument object after the call.  The only methods called on the four
\* arrays of the argument are the filters of lines 294-298 and 392; slice,
\* reduce, map and every are called on the arrays those filters returned.
InputAfter(m, t) ==
    IF GuardThrows(m) \/ AwaitingData(m) THEN m
    ELSE LET recent15min == t - 15 * MinuteMs
             recent5min == t - 5 * MinuteMs
             m1 == [m EXCEPT !.ping = AfterFilter(@, recent15min)]
             m2 == IF "latency" \in m.missing THEN m1
                   ELSE [m1 EXCEPT !.latency = AfterFilter(@, recent15min)]
             m3 == IF {"latency", "cpu"} \cap m.missing # {} THEN m2
                   ELSE [m2 EXCEPT !.cpu = AfterFilter(@, recent15min),
                                   !.ping = AfterFilter(@, recent5min)]
         IN  IF ScoreThrows(m, t) THEN m3
             ELSE IF MemoryGuard(FilterSince(m.cpu, recent15min), m.memory)
             THEN [m3 EXCEPT !.memory = AfterFilter(@, recent15min)]
             ELSE m3

----------------------------------------------------------------------------
(* PredictionCard: the ETA badge *)

NoEtaText == [hours |-> 0 - 1, minutes |-> 0 - 1]

\* formatETA: null for a falsy argument, else `${minutes}min` below an hour
\* and hours with the remaining minutes from an hour on
FormatETA(minutes) ==
    IF ~Truthy(minutes) THEN NoEtaText
    ELSE IF minutes < 60 THEN [hours |-> 0, minutes |-> minutes]
    ELSE [hours |-> minutes \div 60, minutes |-> minutes % 60]

\* {prediction.etaMinutes && (<div>ETA: {formatETA(prediction.etaMinutes)}</div>)}
EtaBadge(p) ==
    IF Truthy(p.etaMinutes)
    THEN [shown |-> TRUE, text |-> FormatETA(p.etaMinutes)]
    ELSE [shown |-> FALSE, text |-> NoEtaText]

----------------------------------------------------------------------------
(* The proxy: getCriticalHistory and getItemHistory *)

\* a row of history.get: clock in seconds, value as the server stores it
Row(clock, value) == [clock |-> clock, value |-> value]

\* limit: 20 of the history.get request
HistoryLimit == 20

RECURSIVE Reverse(_)
Reverse(seq) == IF seq = <<>> THEN <<>> ELSE Append(Reverse(Tail(seq)), Head(seq))

\* history.get with sortfield clock, sortorder DESC, limit 20, time_from and
\* time_till: the rows of the item (held oldest first) inside the range,
\* newest first, the first 20 of them
GetItemHistory(rows, timeFrom, timeTill) ==
    SliceTo(Reverse(SelectSeq(rows, LAMBDA r : r.clock >= timeFrom /\ r.clock <= timeTill)),
            HistoryLimit)

\* history.map(h => ({timestamp: parseInt(h.clock) * 1000, value: ...})); a
\* row's value is kept as the number its decimal string denotes
ToSamples(history) ==
    [i \in 1..Len(history) |-> Sample(history[i].clock * 1000, history[i].value)]

\* for (const item of items) { ...push(...history.map(...)) }
RECURSIVE CollectItems(_, _, _)
CollectItems(items, timeFrom, timeTill) ==
    IF items = <<>> THEN <<>>
    ELSE ToSamples(GetItemHistory(Head(items), timeFrom, timeTill))
             \o CollectItems(Tail(items), timeFrom, timeTill)

\* the alternative patterns, tried in order until one yields samples
RECURSIVE CollectAlternatives(_, _, _)
CollectAlternatives(patterns, timeFrom, timeTill) ==
    IF patterns = <<>> THEN <<>>
    ELSE LET got == CollectItems(Head(patterns), timeFrom, timeTill)
         IN  IF Len(got) > 0 THEN got
             ELSE CollectAlternatives(Tail(patterns), timeFrom, timeTill)

\* a signal whose alternative patterns are tried when the first pattern
\* yielded no sample (latency, cpu, memory); found[k] lists the items the
\* k-th pattern finds, each item by its rows
CollectSignal(found, timeFrom, timeTill) ==
    LET got == CollectItems(Head(found), timeFrom, timeTill)
    IN  IF Len(got) > 0 THEN got
        ELSE CollectAlternatives(Tail(found), timeFrom, timeTill)

\* ping: the alternative pattern is searched when the first found no item
CollectPing(found, timeFrom, timeTill) ==
    CollectItems(IF Len(found[1]) = 0 THEN found[2] ELSE found[1], timeFrom, timeTill)

\* the switch on timeRange, in seconds
RangeSeconds(timeRange) ==
    CASE timeRange = "1h" -> 3600
      [] timeRange = "6h" -> 21600
      [] timeRange = "24h" -> 86400
      [] OTHER -> 3600

\* the metrics of the response of getCriticalHistory, called at clock t (ms)
GetCriticalHistory(z, timeRange, t) ==
    LET nowSec == t \div 1000
        timeFrom == nowSec - RangeSeconds(timeRange)
    IN  Metrics(CollectPing(z.ping, timeFrom, nowSec),
                CollectSignal(z.latency, timeFrom, nowSec),
                CollectSignal(z.cpu, timeFrom, nowSec),
                CollectSignal(z.memory, timeFrom, nowSec))

----------------------------------------------------------------------------
(* The earlier variant of useInstabilityPrediction: the last samples of each
   signal, whatever their age; data.metrics is the argument m *)

\* Math.min(...arr.map(x => x.value)) of a non-empty array
RECURSIVE MinValue(_)
MinValue(seq) ==
    IF Len(seq) = 1 THEN Head(seq).value
    ELSE LET m == MinValue(Tail(seq))
         IN  IF Head(seq).value < m THEN Head(seq).value ELSE m

\* (num / den).toFixed(0) (num >= 0, den > 0)
ToFixed0(num, den) == (2 * num + den) \div (2 * den)

\* arr.findIndex(p => p.value === 1): the 0-based index of the first sample
\* that is a success, -1 when there is none
FindIndexSuccess(seq) ==
    LET hits == {i \in 1..Len(seq) : seq[i].value = 1}
    IN  IF hits = {} THEN 0 - 1
        ELSE (CHOOSE i \in hits : \A j \in hits : i <= j) - 1

\* etaMinutes = Math.min(etaMinutes || 300, e)
EarlierProposeEta(acc, e) ==
    WithEta(acc, MathMin(IF Truthy(acc.etaMinutes) THEN acc.etaMinutes ELSE 300, e))

\* the ping block, lines 106-140; the factor's value is the number the
\* text shows
EarlierPingAnalysis(acc, ping) ==
    IF Len(ping) > 0
    THEN LET recentPing == SliceLast(ping, 20)
             last5Minutes == SliceLast(recentPing, 5)
             pingFailures == PingFailures(last5Minutes)
             n == Len(last5Minutes)
             percent == ToFixed0(100 * pingFailures, n)
             reversed == Reverse(last5Minutes)
             consecutiveFailures == FindIndexSuccess(reversed)
             isDownNow == reversed[1].value = 0
         IN  IF isDownNow /\ consecutiveFailures >= 3
             THEN WithEta(Fire(acc, 40, Factor("Host offline", consecutiveFailures)), 0)
             ELSE IF 100 * pingFailures >= 60 * n
             THEN WithEta(Fire(acc, 35,
                               Factor("Perda critica de conectividade", percent)), 2)
             ELSE IF 100 * pingFailures >= 40 * n
             THEN WithEta(Fire(acc, 25,
                               Factor("Perda alta de conectividade", percent)), 5)
             ELSE IF 100 * pingFailures >= 20 * n
             THEN WithEta(Fire(acc, 15,
                               Factor("Perda moderada de conectividade", percent)), 15)
             ELSE IF pingFailures > 0
             THEN Fire(acc, 5, Factor("Perda esporadica detectada", percent))
             ELSE acc
    ELSE acc

\* the latency block, lines 144-173
EarlierLatencyAnalysis(acc, latency) ==
    IF Len(latency) > 0
    THEN LET recentLatency == SliceLast(latency, 10)
             sum == SumValues(recentLatency)
             n == Len(recentLatency)
             maxLatency == MaxValue(recentLatency)
             minLatency == MinValue(recentLatency)
             \* avgLatency > 0 ? ((max - min) / avgLatency) * 100 : 0, above 200
             variationAbove200 == sum > 0 /\ (maxLatency - minLatency) * n > 2 * sum
             latencySpikes ==
                 Len(SelectSeq(recentLatency, LAMBDA l : l.value * n > 2 * sum))
         IN  IF maxLatency > 2000
             THEN EarlierProposeEta(
                      Fire(acc, 30, Factor("Latencia critica detectada", maxLatency)), 5)
             ELSE IF maxLatency > 1000
             THEN EarlierProposeEta(
                      Fire(acc, 20, Factor("Latencia muito alta", maxLatency)), 10)
             ELSE IF latencySpikes >= 5
             THEN EarlierProposeEta(
                      Fire(acc, 15, Factor("Instabilidade de latencia", latencySpikes)), 30)
             ELSE IF variationAbove200
             THEN EarlierProposeEta(
                      Fire(acc, 10,
                           Factor("Latencia instavel",
                                  ToFixed0(100 * (maxLatency - minLatency) * n, sum))), 60)
             ELSE IF sum > 500 * n
             THEN Fire(acc, 5, Factor("Latencia elevada", ToFixed0(sum, n)))
             ELSE acc
    ELSE acc

\* the cpu block, lines 177-201; averages are shown in tenths
EarlierCpuAnalysis(acc, cpu) ==
    IF Len(cpu) > 0
    THEN LET recentCpu == SliceLast(cpu, 5)
             sum == SumValues(recentCpu)
             n == Len(recentCpu)
             maxCpu == MaxValue(recentCpu)
             highCpuCount == Len(SelectSeq(recentCpu, LAMBDA c : c.value > 80))
         IN  IF sum > 95 * n
             THEN EarlierProposeEta(
                      Fire(acc, 15, Factor("CPU critica sustentada", ToFixed1(sum, n))), 10)
             ELSE IF sum > 90 * n
             THEN EarlierProposeEta(
                      Fire(acc, 12, Factor("CPU muito alta", ToFixed1(sum, n))), 20)
             ELSE IF highCpuCount >= 3
             THEN EarlierProposeEta(
                      Fire(acc, 8, Factor("CPU frequentemente alta", highCpuCount)), 60)
             ELSE IF maxCpu > 85
             THEN Fire(acc, 5, Factor("Picos de CPU detectados", 10 * maxCpu))
             ELSE acc
    ELSE acc

\* the memory block, lines 205-229
EarlierMemoryAnalysis(acc, memory) ==
    IF Len(memory) > 0
    THEN LET recentMemory == SliceLast(memory, 5)
             sum == SumValues(recentMemory)
             n == Len(recentMemory)
             maxMemory == MaxValue(recentMemory)
             highMemoryCount == Len(SelectSeq(recentMemory, LAMBDA u : u.value > 85))
         IN  IF sum > 98 * n
             THEN EarlierProposeEta(
                      Fire(acc, 15, Factor("Memoria critica", ToFixed1(sum, n))), 15)
             ELSE IF sum > 95 * n
             THEN EarlierProposeEta(
                      Fire(acc, 12, Factor("Memoria muito alta", ToFixed1(sum, n))), 30)
             ELSE IF highMemoryCount >= 3
             THEN EarlierProposeEta(
                      Fire(acc, 8, Factor("Memoria frequentemente alta", highMemoryCount)), 90)
             ELSE IF maxMemory > 90
             THEN Fire(acc, 5, Factor("Picos de memoria detectados", 10 * maxMemory))
             ELSE acc
    ELSE acc

EarlierRecommendationOf(riskLevel) ==
    IF riskLevel = "critical"
    THEN "CRITICO: Intervencao imediata necessaria - sistema instavel"
    ELSE IF riskLevel = "high"
    THEN "ALTO: Monitoramento intensivo e acao preventiva recomendada"
    ELSE IF riskLevel = "medium"
    THEN "MEDIO: Atencao requerida - monitorar tendencias"
    ELSE "BAIXO: Sistema operando dentro dos parametros normais"

\* !data || !data.metrics
EarlierNoData(t) ==
    Result("low", 0, NullEta, <<>>, "Sem dados suficientes para analise", t)

\* the four arrays are empty
EarlierInsufficient(t) ==
    Result("low", 5, NullEta, <<Factor("Metricas insuficientes para analise", NoValue)>>,
           "Monitoramento insuficiente detectado", t)

\* the memo callback of the earlier variant, called at clock t with an
\* object whose four arrays exist, or with no data
EarlierPredict(m, t) ==
    IF m.isNull THEN EarlierNoData(t)
    ELSE IF Len(m.ping) = 0 /\ Len(m.latency) = 0 /\ Len(m.cpu) = 0 /\ Len(m.memory) = 0
    THEN EarlierInsufficient(t)
    ELSE LET a1 == EarlierPingAnalysis(Acc0, m.ping)
             a2 == EarlierLatencyAnalysis(a1, m.latency)
             a3 == EarlierCpuAnalysis(a2, m.cpu)
             a4 == EarlierMemoryAnalysis(a3, m.memory)
             riskLevel == RiskLevelOf(a4.riskScore)
         IN  Result(riskLevel, MathMin(100, a4.riskScore), a4.etaMinutes, a4.factors,
                    EarlierRecommendationOf(riskLevel), t)

----------------------------------------------------------------------------
(* The state machine *)

NoBaseline == [status |-> "none"]
NoHistory == [ping |-> <<>>, latency |-> <<>>, cpu |-> <<>>, memory |-> <<>>]
NoCalls == <<>>
NoPage == [status |-> "none"]

\* the render in which the memo callback runs
RunPredictor ==
    /\ pc = "ready"
    /\ prediction' = Predict(metrics, now)
    /\ metrics' = InputAfter(metrics, now)
    /\ pc' = "done"
    /\ UNCHANGED <<now, baseline, zabbix, calls, page>>

Next == RunPredictor

\* the query function resolves: the proxy answers with the host's history
Fetch ==
    /\ pc = "fetch"
    /\ \E timeRange \in {"1h", "6h", "24h"} :
           metrics' = GetCriticalHistory(zabbix, timeRange, now)
    /\ pc' = "ready"
    /\ UNCHANGED <<now, prediction, baseline, zabbix, calls, page>>

NextFetch == Fetch \/ RunPredictor

\* pingFailureRate of the 15 minute window of ping at clock t, in tenths
\* (0 - 1 when it is not a whole number of tenths or the window is empty)
RateTenths(ping, t) ==
    LET w == FilterSince(ping, t - 15 * MinuteMs)
        f == PingFailures(w)
    IN  IF Len(w) > 0 /\ (10 * f) % Len(w) = 0 THEN (10 * f) \div Len(w) ELSE 0 - 1

\* the hook is rendered again with an object that differs in its ping array
\* alone; the failure rate goes from 0.2 to 0.4 or from 0.4 to 0.6
ReplacePing(Pings) ==
    /\ pc = "done"
    /\ baseline = NoBaseline
    /\ \E p \in Pings :
           /\ RateTenths(p, now) = RateTenths(metrics.ping, now) + 2
           /\ metrics' = [metrics EXCEPT !.ping = p]
    /\ baseline' = [status |-> "set", metrics |-> metrics, prediction |-> prediction]
    /\ pc' = "ready"
    /\ UNCHANGED <<now, prediction, zabbix, calls, page>>

\* inputs: the four sequences drawn from the given sets, the clock from Clocks
InitOf(Pings, Latencies, Cpus, Memories, Clocks) ==
    /\ metrics \in {NullMetrics} \cup
                   {Metrics(p, l, c, m) :
                        p \in Pings, l \in Latencies, c \in Cpus, m \in Memories}
    /\ now \in Clocks
    /\ prediction = NotRun
    /\ pc = "ready"
    /\ baseline = NoBaseline
    /\ calls = NoCalls
    /\ page = NoPage
    /\ zabbix = NoHistory

\* Deep inputs: sequences long enough for every rule to fire together
DeepPing == SeqsUpTo({Sample(TB, 0), Sample(TB, 1)}, MaxPing)
\* low latency that rises by more than 30% from its first to its second half
RisingLatency ==
    <<Sample(TB, 10), Sample(TB, 10), Sample(TB, 20), Sample(TB, 20), Sample(TB, 20)>>

DeepLatency == SeqsUpTo({Sample(TB, 10), Sample(TB, 600)}, MaxLatency) \cup {RisingLatency}
DeepCpu == SeqsUpTo({Sample(TB, 85), Sample(TB, 100)}, MaxUsage)
DeepMemory == SeqsUpTo({Sample(TB, 88), Sample(TB, 95)}, MaxUsage)

DeepClocks == {Now0, Now0 + 6 * MinuteMs, Now0 + 20 * MinuteMs}

InitDeep == InitOf(DeepPing, DeepLatency, DeepCpu, DeepMemory, DeepClocks)

SpecDeep == InitDeep /\ [][Next]_vars

\* Broad inputs: short sequences over samples on both sides of every
\* threshold and of both windows, and objects that lack one of the arrays
BroadPing ==
    SeqsUpTo({Sample(TB, 0), Sample(TB, 1), Sample(TA, 0), Sample(TOld, 0)}, MaxLen)
BroadLatency ==
    SeqsUpTo({Sample(TB, 150), Sample(TB, 250), Sample(TB, 600), Sample(TA, 600)}, MaxLen)
BroadCpu ==
    SeqsUpTo({Sample(TB, 85), Sample(TB, 92), Sample(TB, 100), Sample(TA, 100)}, MaxLen)
BroadMemory == SeqsUpTo({Sample(TB, 88), Sample(TB, 95), Sample(TA, 95)}, MaxLen + 1)

BroadClocks == {Now0, Now0 + 6 * MinuteMs}

\* the object m without its property f
Without(m, f) == [m EXCEPT !.missing = {f}, ![f] = <<>>]

Init ==
    /\ \E m \in {Metrics(p, l, c, u) :
                    p \in BroadPing, l \in BroadLatency, c \in BroadCpu, u \in BroadMemory} :
           metrics \in {NullMetrics, m}
                           \cup {Without(m, f) : f \in {"ping", "latency", "cpu", "memory"}}
    /\ now \in BroadClocks
    /\ prediction = NotRun
    /\ pc = "ready"
    /\ baseline = NoBaseline
    /\ calls = NoCalls
    /\ page = NoPage
    /\ zabbix = NoHistory

Spec == Init /\ [][Next]_vars

\* Fetched inputs: what the proxy delivers for the rows the server holds.
\* An item is polled once a minute; its newest row is one minute old.
Polled(values, t) ==
    [i \in 1..Len(values) |-> Row(t \div 1000 - 60 * (Len(values) - i + 1), values[i])]

PingItems == {Polled(v, Now0) : v \in SeqsUpTo({0, 1}, MaxHistory) \ {<<>>}}
LatencyItems ==
    {Polled(v, Now0) : v \in {<<50>>, <<50, 600>>, <<600, 50>>,
                              <<50, 50, 50, 600, 600>>, <<600, 600, 50, 50, 50>>}}
UsageItems == {Polled(v, Now0) : v \in {<<95>>}}

InitFetch ==
    /\ \E p1 \in SeqsUpTo(PingItems, MaxItems),
          p2 \in {<<>>, <<Polled(<<0, 0, 0>>, Now0)>>},
          l1 \in SeqsUpTo(LatencyItems, 1), c1 \in SeqsUpTo(UsageItems, 1),
          m1 \in SeqsUpTo(UsageItems, 1) :
           zabbix = [ping |-> <<p1, p2>>,
                     latency |-> <<l1, <<>>, <<>>, <<>>, <<>> >>,
                     cpu |-> << <<>>, c1, <<>>, <<>>, <<>> >>,
                     memory |-> <<m1, <<>>, <<>>, <<>>, <<>> >>]
    /\ metrics = NullMetrics
    /\ now = Now0
    /\ prediction = NotRun
    /\ pc = "fetch"
    /\ baseline = NoBaseline
    /\ calls = NoCalls
    /\ page = NoPage

SpecFetch == InitFetch /\ [][NextFetch]_vars

\* Polled ping arrays, oldest first, whose failure rate is 0.2, 0.4 or 0.6
PolledPing(values, t) ==
    [i \in 1..Len(values) |-> Sample(t - (Len(values) - i + 1) * MinuteMs, values[i])]

\* the render in which the memo callback of the earlier variant runs; the
\* callback reverses a copy of the last ping samples and leaves its
\* argument as it was
RunEarlierPredictor ==
    /\ pc = "earlier"
    /\ prediction' = EarlierPredict(metrics, now)
    /\ pc' = "done"
    /\ UNCHANGED <<metrics, now, baseline, zabbix, calls, page>>

NextEarlier == RunEarlierPredictor

\* inputs of the earlier variant, oldest sample first: every history of up
\* to MaxEarlier ping results, and histories of the other signals that
\* reach each of their rules
EarlierPing == {PolledPing(v, Now0) : v \in SeqsUpTo({0, 1}, MaxEarlier)}
EarlierLatency ==
    {<<>>, <<Sample(TB, 100)>>, <<Sample(TB, 600)>>, <<Sample(TB, 1500)>>,
     <<Sample(TB, 2500)>>,
     <<Sample(TB, 10), Sample(TB, 10), Sample(TB, 10), Sample(TB, 1000)>>}
EarlierCpu ==
    {<<>>, <<Sample(TB, 86)>>, <<Sample(TB, 91)>>, <<Sample(TB, 96)>>,
     <<Sample(TB, 85), Sample(TB, 85), Sample(TB, 85)>>}
EarlierMemory ==
    {<<>>, <<Sample(TB, 91)>>, <<Sample(TB, 96)>>, <<Sample(TB, 99)>>,
     <<Sample(TB, 90), Sample(TB, 90), Sample(TB, 90)>>}

InitEarlier ==
    /\ metrics \in {NullMetrics} \cup
                   {Metrics(p, l, c, m) : p \in EarlierPing, l \in EarlierLatency,
                                          c \in EarlierCpu, m \in EarlierMemory}
    /\ now = Now0
    /\ prediction = NotRun
    /\ pc = "earlier"
    /\ baseline = NoBaseline
    /\ calls = NoCalls
    /\ page = NoPage
    /\ zabbix = NoHistory

SpecEarlier == InitEarlier /\ [][NextEarlier]_vars

RatedPing ==
    {p \in {PolledPing(v, Now0) : v \in SeqsUpTo({0, 1}, MaxPolled)} :
        RateTenths(p, Now0) \in {2, 4, 6}}

InitRate ==
    /\ metrics \in {Metrics(p, l, <<>>, <<>>) :
                        p \in {q \in RatedPing : RateTenths(q, Now0) \in {2, 4}},
                        l \in {<<>>, <<Sample(TB, 250)>>}}
    /\ now = Now0
    /\ prediction = NotRun
    /\ pc = "ready"
    /\ baseline = NoBaseline
    /\ calls = NoCalls
    /\ page = NoPage
    /\ zabbix = NoHistory

NextRate == RunPredictor \/ ReplacePing(RatedPing)

SpecRate == InitRate /\ [][NextRate]_vars

\* Inputs at the start of the window: samples exactly 15 minutes older than
\* the first clock, samples one millisecond older than that, and the same
\* samples one millisecond later
TCut == Now0 - 15 * MinuteMs

WindowPing == SeqsUpTo({Sample(TCut, 0), Sample(TCut - 1, 0), Sample(TB, 1)}, MaxLen)
WindowLatency == SeqsUpTo({Sample(TCut, 600), Sample(TCut - 1, 600)}, MaxLen)
WindowCpu == SeqsUpTo({Sample(TCut, 100), Sample(TCut - 1, 100)}, MaxLen)
WindowMemory == SeqsUpTo({Sample(TCut, 95), Sample(TCut - 1, 95)}, MaxLen)

WindowClocks == {Now0, Now0 + 1}

InitWindow == InitOf(WindowPing, WindowLatency, WindowCpu, WindowMemory, WindowClocks)

SpecWindow == InitWindow /\ [][Next]_vars

\* Ping histories: every array of up to MaxPolled samples polled once a
\* minute, oldest first, read when its newest sample is 1 minute and 7
\* minutes old; latency and cpu absent or high
PingClocks == {Now0, Now0 + 6 * MinuteMs}

InitPing ==
    /\ metrics \in {Metrics(PolledPing(v, Now0), l, c, <<>>) :
                        v \in SeqsUpTo({0, 1}, MaxPolled),
                        l \in {<<>>, <<Sample(TB, 250)>>},
                        c \in {<<>>, <<Sample(TB, 100)>>}}
    /\ now \in PingClocks
    /\ prediction = NotRun
    /\ pc = "ready"
    /\ baseline = NoBaseline
    /\ calls = NoCalls
    /\ page = NoPage
    /\ zabbix = NoHistory

SpecPing == InitPing /\ [][Next]_vars

\* Inputs at the thresholds: one signal at a time runs over short sequences
\* of values at and just above each threshold of its rules, next to a sample
\* outside the window, while the other signals are absent or fixed
MaxEdge == 2

EdgePing == {<<Sample(TB, 1)>>, <<Sample(TB, 0)>>}

EdgeLatency ==
    SeqsUpTo({Sample(TB, v) : v \in {100, 101, 200, 201, 500, 501}}
                 \cup {Sample(TOld, 600)}, MaxEdge)

EdgeCpu ==
    SeqsUpTo({Sample(TB, v) : v \in {80, 81, 90, 91, 95, 96}}
                 \cup {Sample(TOld, 100)}, MaxEdge)

EdgeMemory ==
    SeqsUpTo({Sample(TB, v) : v \in {85, 86, 90, 91}} \cup {Sample(TOld, 95)}, MaxEdge)

InitEdge ==
    /\ metrics \in
           {Metrics(p, l, c, <<>>) :
                p \in EdgePing, l \in EdgeLatency, c \in {<<>>, <<Sample(TB, 100)>>}}
           \cup
           {Metrics(p, l, c, m) :
                p \in EdgePing, l \in {<<>>, <<Sample(TB, 250)>>}, c \in EdgeCpu,
                m \in {<<>>, <<Sample(TB, 95)>>}}
           \cup
           {Metrics(p, l, c, m) :
                p \in EdgePing, l \in {<<>>, <<Sample(TB, 250)>>},
                c \in {<<>>, <<Sample(TB, 50)>>, <<Sample(TB, 100)>>, <<Sample(TOld, 50)>>},
                m \in EdgeMemory}
    /\ now = Now0
    /\ prediction = NotRun
    /\ pc = "ready"
    /\ baseline = NoBaseline
    /\ calls = NoCalls
    /\ page = NoPage
    /\ zabbix = NoHistory

SpecEdge == InitEdge /\ [][Next]_vars

----------------------------------------------------------------------------
(* Two calls of the hook in progress at once *)

\* a call that has not started: its argument, the value Date.now() will
\* return to it, its position in the callback and its local variables
Call(m, t) ==
    [metrics |-> m, clock |-> t, at |-> "start", acc |-> Acc0, result |-> NotRun,
     overlapped |-> FALSE]

InProgress(c) == c.at \notin {"start", "done"}

\* riskScore, factors and etaMinutes are variables of the module, shared by
\* every call
AccOf_Shared(c, i) == c[1].acc

\* let riskScore = 0; const factors = []; let etaMinutes = null: variables
\* of the callback, one set per call
AccOf(c, i) == c[i].acc

\* call i moves on; overlapped records that the other call was in progress
Advance(i, at, acc, result) ==
    /\ calls' = [calls EXCEPT ![i] =
                     [@ EXCEPT !.at = at, !.acc = acc, !.result = result,
                               !.overlapped = @ \/ InProgress(calls[3 - i])]]
    /\ UNCHANGED <<metrics, now, prediction, pc, baseline, zabbix, page>>

\* lines 276-302: the guard, the destructuring, the filters, the locals
CallEnter(i) ==
    /\ pc = "calls" /\ calls[i].at = "start"
    /\ LET m == calls[i].metrics
           t == calls[i].clock
       IN  IF GuardThrows(m) THEN Advance(i, "done", Acc0, Threw)
           ELSE IF AwaitingData(m) THEN Advance(i, "done", Acc0, DefaultResult(t))
           ELSE IF {"latency", "cpu"} \cap m.missing # {}
           THEN Advance(i, "done", Acc0, Threw)
           ELSE Advance(i, "ping", Acc0, NotRun)

\* lines 304-332
CallPing(i) ==
    /\ pc = "calls" /\ calls[i].at = "ping"
    /\ LET m == calls[i].metrics
           t == calls[i].clock
       IN  Advance(i, "latency",
                   PingAnalysis(AccOf(calls, i), FilterSince(m.ping, t - 15 * MinuteMs),
                                FilterSince(m.ping, t - 5 * MinuteMs)),
                   NotRun)

\* lines 335-367
CallLatency(i) ==
    /\ pc = "calls" /\ calls[i].at = "latency"
    /\ LET m == calls[i].metrics
           t == calls[i].clock
       IN  Advance(i, "cpu",
                   LatencyAnalysis(AccOf(calls, i), FilterSince(m.latency, t - 15 * MinuteMs)),
                   NotRun)

\* lines 370-388
CallCpu(i) ==
    /\ pc = "calls" /\ calls[i].at = "cpu"
    /\ LET m == calls[i].metrics
           t == calls[i].clock
       IN  Advance(i, "memory",
                   CpuAnalysis(AccOf(calls, i), FilterSince(m.cpu, t - 15 * MinuteMs)),
                   NotRun)

\* lines 391-404
CallMemory(i) ==
    /\ pc = "calls" /\ calls[i].at = "memory"
    /\ LET m == calls[i].metrics
           t == calls[i].clock
           recentCpu == FilterSince(m.cpu, t - 15 * MinuteMs)
       IN  IF "memory" \in m.missing /\ Len(recentCpu) > 0
           THEN Advance(i, "done", AccOf(calls, i), Threw)
           ELSE Advance(i, "return",
                        MemoryAnalysis(AccOf(calls, i), recentCpu, m.memory,
                                       t - 15 * MinuteMs),
                        NotRun)

\* lines 407-437
CallReturn(i) ==
    /\ pc = "calls" /\ calls[i].at = "return"
    /\ LET a == AccOf(calls, i)
           riskLevel == RiskLevelOf(a.riskScore)
       IN  Advance(i, "done", a,
                   Result(riskLevel, ClampScore(a.riskScore), a.etaMinutes, a.factors,
                          RecommendationOf(riskLevel), calls[i].clock))

NextCalls ==
    \E i \in 1..2 :
        \/ CallEnter(i) \/ CallPing(i) \/ CallLatency(i)
        \/ CallCpu(i) \/ CallMemory(i) \/ CallReturn(i)

\* the arguments of the two calls: a null argument, and objects whose
\* signals are quiet, failing or absent
CallInputs ==
    {NullMetrics} \cup
    {Metrics(p, l, c, m) :
         p \in {<<Sample(TB, 1)>>, <<Sample(TB, 0)>>},
         l \in {<<>>, <<Sample(TB, 250)>>},
         c \in {<<>>, <<Sample(TB, 100)>>},
         m \in {<<>>, <<Sample(TB, 95)>>}}

CallClocks == {Now0, Now0 + 20 * MinuteMs}

InitCalls ==
    /\ calls \in [1..2 -> {Call(m, t) : m \in CallInputs, t \in CallClocks}]
    /\ metrics = NullMetrics
    /\ now = Now0
    /\ prediction = NotRun
    /\ pc = "calls"
    /\ baseline = NoBaseline
    /\ zabbix = NoHistory
    /\ page = NoPage

SpecCalls == InitCalls /\ [][NextCalls]_vars

----------------------------------------------------------------------------
(* The Prediction page: host and time range selection, the query for the
   critical history with its cache, and the hook memoised on its argument *)

\* most refresh ticks (refetchInterval) of a behaviour
MaxTicks == 1

RefetchInterval == 30 * 1000

Hosts == <<"h1", "h2">>
HostIds == {Hosts[i] : i \in 1..Len(Hosts)}
TimeRanges == {"1h", "6h"}

\* queryKey ['critical-history', selectedHost, timeRange]
QueryKey(host, timeRange) == <<host, timeRange>>
QueryKeys == {QueryKey(h, r) : h \in HostIds, r \in TimeRanges}
NoKey == <<>>

\* the response of getCriticalHistory: { hostId, timeRange, metrics }
Bundle(host, timeRange, m) == [hostId |-> host, timeRange |-> timeRange, metrics |-> m]
NoData == [hostId |-> "", timeRange |-> "", metrics |-> NullMetrics]

\* a query of the cache: its data, whether the data arrived since the last
\* tick (it is stale after staleTime, 15 s, half a tick), and whether its
\* last fetch ended in an error
NoQuery == [data |-> NoData, fresh |-> FALSE, failed |-> FALSE]

CurrentKey(p) == QueryKey(p.selectedHost, p.timeRange)

\* while the query of the current key has no data, the data last returned
\* is still returned (keepPreviousData)
CriticalData_KeepPrevious(p) ==
    IF p.selectedHost = "" THEN NoData
    ELSE IF p.cache[CurrentKey(p)].data = NoData /\ p.memoKey # NoKey
    THEN p.cache[p.memoKey].data
    ELSE p.cache[CurrentKey(p)].data

\* the data useQuery returns: that of the query with the current key, and
\* none while the query is disabled (no host selected)
CriticalData(p) ==
    IF p.selectedHost = "" THEN NoData ELSE p.cache[CurrentKey(p)].data

\* criticalLoading: no data yet and a fetch in flight
CriticalLoading(p) ==
    /\ p.selectedHost # ""
    /\ p.cache[CurrentKey(p)].data = NoData
    /\ CurrentKey(p) \in p.inflight

\* criticalData?.metrics || null
HookArgument(p) == CriticalData(p).metrics

\* the key of the bundle the argument comes from
HookArgumentKey(p) ==
    IF CriticalData(p) = NoData THEN NoKey
    ELSE QueryKey(CriticalData(p).hostId, CriticalData(p).timeRange)

\* useMemo(..., [metrics]): the dependency is the same object as at the last
\* render.  A refetched response is merged into the cached one, so metrics
\* of equal content fetched for the same key are one object
SameDependency(p) ==
    /\ HookArgument(p) = metrics
    /\ HookArgumentKey(p) = page.memoKey

\* a render of the page with the state p at clock t: the hook returns the
\* memoised result or runs the callback again
Render(p, t) ==
    IF SameDependency(p)
    THEN /\ page' = p
         /\ UNCHANGED <<metrics, prediction>>
    ELSE /\ page' = [p EXCEPT !.memoKey = HookArgumentKey(p)]
         /\ prediction' = Predict(HookArgument(p), t)
         /\ metrics' = InputAfter(HookArgument(p), t)

\* the observer of the current key fetches when the query has no data or
\* its data is stale, unless a fetch is already in flight
WithFetchIfStale(p) ==
    IF p.selectedHost # "" /\ ~p.cache[CurrentKey(p)].fresh
    THEN [p EXCEPT !.inflight = @ \cup {CurrentKey(p)}]
    ELSE p

\* useZabbixHosts delivers the hosts; the effect of lines 37-41 selects the
\* first one, which enables the query
HostsLoad ==
    /\ pc = "page" /\ ~page.hostsLoaded
    /\ Render(WithFetchIfStale([page EXCEPT !.hostsLoaded = TRUE,
                                            !.selectedHost = Hosts[1]]), now)
    /\ UNCHANGED <<now, pc, baseline, zabbix, calls>>

\* onValueChange={setSelectedHost}
SelectHost(h) ==
    /\ pc = "page" /\ page.hostsLoaded /\ h # page.selectedHost
    /\ Render(WithFetchIfStale([page EXCEPT !.selectedHost = h]), now)
    /\ UNCHANGED <<now, pc, baseline, zabbix, calls>>

\* onValueChange={setTimeRange}
SetTimeRange(r) ==
    /\ pc = "page" /\ page.hostsLoaded /\ r # page.timeRange
    /\ Render(WithFetchIfStale([page EXCEPT !.timeRange = r]), now)
    /\ UNCHANGED <<now, pc, baseline, zabbix, calls>>

\* handleRefresh: refetch(); the button is disabled while criticalLoading
HandleRefresh ==
    /\ pc = "page" /\ page.hostsLoaded /\ ~CriticalLoading(page)
    /\ CurrentKey(page) \notin page.inflight
    /\ Render([page EXCEPT !.inflight = @ \cup {CurrentKey(page)}], now)
    /\ UNCHANGED <<now, pc, baseline, zabbix, calls>>

\* refetchInterval: 30 seconds pass, every cached bundle is stale, and the
\* query of the current key is fetched again
Tick ==
    /\ pc = "page" /\ page.hostsLoaded /\ page.ticks < MaxTicks
    /\ now' = now + RefetchInterval
    /\ Render([page EXCEPT !.ticks = @ + 1,
                           !.cache = [k \in QueryKeys |-> [@[k] EXCEPT !.fresh = FALSE]],
                           !.inflight = @ \cup {CurrentKey(page)}],
              now + RefetchInterval)
    /\ UNCHANGED <<pc, baseline, zabbix, calls>>

\* what the proxy may answer for a host
HostMetrics(h) ==
    IF h = Hosts[1]
    THEN {Metrics(<<Sample(TB, 1)>>, <<>>, <<>>, <<>>),
          Metrics(<<Sample(TB, 0)>>, <<>>, <<>>, <<>>)}
    ELSE {Metrics(<<Sample(TB, 1)>>, <<Sample(TB, 250)>>, <<>>, <<>>)}

\* getCriticalHistory resolves for the key it was called with
FetchOk(k, m) ==
    /\ pc = "page" /\ k \in page.inflight
    /\ Render([page EXCEPT !.inflight = @ \ {k},
                           !.cache[k] = [data |-> Bundle(k[1], k[2], m),
                                         fresh |-> TRUE, failed |-> FALSE]],
              now)
    /\ UNCHANGED <<now, pc, baseline, zabbix, calls>>

\* getCriticalHistory throws (lines 196-207): the query keeps the data it
\* had and records the error
FetchFail(k) ==
    /\ pc = "page" /\ k \in page.inflight
    /\ Render([page EXCEPT !.inflight = @ \ {k}, !.cache[k].failed = TRUE], now)
    /\ UNCHANGED <<now, pc, baseline, zabbix, calls>>

NextPage ==
    \/ HostsLoad
    \/ \E h \in HostIds : SelectHost(h)
    \/ \E r \in TimeRanges : SetTimeRange(r)
    \/ HandleRefresh
    \/ Tick
    \/ \E k \in QueryKeys : \E m \in HostMetrics(k[1]) : FetchOk(k, m)
    \/ \E k \in QueryKeys : FetchFail(k)

\* the first render: no host, time range '1h', the hook called with null
InitPage ==
    /\ page = [hostsLoaded |-> FALSE, selectedHost |-> "", timeRange |-> "1h",
               cache |-> [k \in QueryKeys |-> NoQuery], inflight |-> {},
               ticks |-> 0, memoKey |-> NoKey]
    /\ metrics = NullMetrics
    /\ now = Now0
    /\ prediction = Predict(NullMetrics, Now0)
    /\ pc = "page"
    /\ baseline = NoBaseline
    /\ zabbix = NoHistory
    /\ calls = NoCalls

SpecPage == InitPage /\ [][NextPage]_vars

----------------------------------------------------------------------------
(* Reading a result *)

Ran == pc = "done" /\ prediction.status = "ok"

Texts(factors) == {factors[i].text : i \in 1..Len(factors)}

Fired(text) == text \in Texts(prediction.factors)

SetMin(S) == CHOOSE x \in S : \A y \in S : x <= y

\* the samples of seq the window starting at cutoff keeps, as the set of
\* their positions
InWindow(seq, cutoff) == {i \in 1..Len(seq) : seq[i].timestamp >= cutoff}

----------------------------------------------------------------------------
(* C1 *)

\* C1: whatever the four sequences and the clock, and for a null argument,
\* the call returns a riskScore that is an integer between 0 and 100.
C1_ScoreInRange ==
    pc = "done" => prediction.status = "ok" /\ prediction.riskScore \in 0..100

\* the eight rules fired together, each ladder on its highest tier (raw sum
\* 60+30+25+20+15+20+15+15 = 200), and the score is 100
C1_AllRulesFire ==
    /\ Ran /\ Len(prediction.factors) = 8
    /\ Fired("Alto indice de falhas de ping")
    /\ Fired("Latencia media alta")
    /\ Fired("CPU critica")
    /\ Fired("Memoria critica")
    /\ prediction.riskScore = 100

----------------------------------------------------------------------------
(* C2 *)

\* C2: for a null argument and for an empty ping array the call returns the
\* default result, whatever the three other properties hold.
C2_DefaultResult ==
    pc = "done" /\ (metrics.isNull \/ ("ping" \notin metrics.missing /\ metrics.ping = <<>>))
        => /\ prediction.status = "ok"
           /\ prediction.riskLevel = "low"
           /\ prediction.riskScore = 0
           /\ prediction.etaMinutes = NullEta
           /\ prediction.factors = <<>>
           /\ prediction.recommendation = "Aguardando dados..."

\* the default result for an empty ping array beside latency, cpu and memory
\* samples that are all inside the window
C2_EmptyPingOtherSignalsHigh ==
    /\ Ran /\ ~metrics.isNull /\ metrics.ping = <<>>
    /\ metrics.latency = <<Sample(TB, 600)>>
    /\ metrics.cpu = <<Sample(TB, 100)>>
    /\ metrics.memory = <<Sample(TB, 95)>>
    /\ now = Now0
    /\ prediction.riskScore = 0

----------------------------------------------------------------------------
(* C3 *)

\* the ETA each rule proposes when it fires, by the factor it pushes
EtaRules ==
    {<<"Alto indice de falhas de ping", 2>>,
     <<"Falhas intermitentes de ping", 5>>,
     <<"3+ falhas consecutivas de ping", 1>>,
     <<"Latencia media alta", 10>>,
     <<"Tendencia de aumento na latencia", 15>>,
     <<"CPU critica", 20>>}

ProposedEtas == {r[2] : r \in {q \in EtaRules : Fired(q[1])}}

\* C3: etaMinutes is the least ETA proposed by the rules that fired, and null
\* exactly when no rule that proposes an ETA fired.
C3_EtaIsMinimum ==
    Ran => prediction.etaMinutes =
               IF ProposedEtas = {} THEN NullEta ELSE SetMin(ProposedEtas)

\* three rules proposed 2, 10 and 20 in that order and the least was kept
C3_LaterRulesProposedMore ==
    Ran /\ ProposedEtas = {2, 10, 20} /\ prediction.etaMinutes = 2

----------------------------------------------------------------------------
(* C4 *)

LevelMatchesScore ==
    /\ (prediction.riskLevel = "critical") = (prediction.riskScore >= 80)
    /\ (prediction.riskLevel = "high") =
           (prediction.riskScore >= 50 /\ prediction.riskScore < 80)
    /\ (prediction.riskLevel = "medium") =
           (prediction.riskScore >= 25 /\ prediction.riskScore < 50)
    /\ (prediction.riskLevel = "low") = (prediction.riskScore < 25)

\* the text the classification gives each level
TextOfLevel(level) ==
    CASE level = "critical" -> "ACAO IMEDIATA: Verificar conectividade e recursos do host"
      [] level = "high" -> "Monitorar de perto e considerar manutencao preventiva"
      [] level = "medium" -> "Acompanhar evolucao das metricas"
      [] level = "low" -> "Sistema operando normalmente"

\* C4 as stated: in every result riskLevel is the class of the returned
\* riskScore (critical from 80, high from 50, medium from 25, low below) and
\* the recommendation is the one fixed text of that level.
C4_OneTextPerLevel ==
    Ran => LevelMatchesScore /\ prediction.recommendation = TextOfLevel(prediction.riskLevel)

\* C4 as amended: in every result riskLevel is the class of the returned
\* riskScore; in every result but the default one (null argument or empty
\* ping array) the recommendation is the fixed text of that level.
C4_LevelMatchesReturnedScore ==
    Ran => /\ LevelMatchesScore
           /\ ~AwaitingData(metrics) =>
                  prediction.recommendation = TextOfLevel(prediction.riskLevel)

\* the raw sum passed 100 (seven rules fired, at least 140) and was clamped
C4_ClampedAndCritical ==
    Ran /\ Len(prediction.factors) = 7 /\ prediction.riskScore = 100
        /\ prediction.riskLevel = "critical"

----------------------------------------------------------------------------
(* C5 *)

\* the place of each factor in the order of the rules
FactorRank(text) ==
    CASE text \in {"Alto indice de falhas de ping", "Falhas intermitentes de ping",
                   "Falhas ocasionais de ping"} -> 1
      [] text = "3+ falhas consecutivas de ping" -> 2
      [] text \in {"Latencia media alta", "Latencia elevada"} -> 3
      [] text = "Picos de latencia extrema" -> 4
      [] text = "Tendencia de aumento na latencia" -> 5
      [] text \in {"CPU critica", "CPU alta"} -> 6
      [] text = "Picos de CPU extrema" -> 7
      [] text \in {"Memoria critica", "Memoria alta"} -> 8

\* C5: the factors are listed ping rate, ping consecutive, latency average,
\* latency spike, latency trend, cpu average, cpu spike, memory.
C5_FactorOrder ==
    Ran => \A i, j \in 1..Len(prediction.factors) :
               i < j => FactorRank(prediction.factors[i].text)
                            < FactorRank(prediction.factors[j].text)

\* a result that lists a factor of every signal, the three latency factors
\* and the two cpu factors among them
C5_EverySignalListed ==
    Ran /\ {FactorRank(t) : t \in Texts(prediction.factors)} = {1, 3, 4, 5, 6, 7, 8}

----------------------------------------------------------------------------
(* C8 *)

MemoryTexts == {"Memoria critica", "Memoria alta"}

CpuWindow == InWindow(metrics.cpu, now - 15 * MinuteMs)

MemoryInWindow == FilterSince(metrics.memory, now - 15 * MinuteMs)

SameOutcome(r1, r2) ==
    /\ r1.status = "ok" /\ r2.status = "ok"
    /\ r1.riskLevel = r2.riskLevel
    /\ r1.riskScore = r2.riskScore
    /\ r1.etaMinutes = r2.etaMinutes
    /\ r1.factors = r2.factors
    /\ r1.recommendation = r2.recommendation

\* C8: with no cpu sample in the 15 minute window the result lists no memory
\* factor and is the result of the same input without its memory samples;
\* with a cpu sample in the window the scoring body decides the memory factor
\* by the mean of the memory samples in the window.
C8_MemoryNeedsCpuWindow ==
    Ran =>
        /\ CpuWindow = {} =>
               /\ Texts(prediction.factors) \cap MemoryTexts = {}
               /\ SameOutcome(prediction,
                              Predict([metrics EXCEPT !.memory = <<>>], now))
        /\ CpuWindow # {} /\ ~AwaitingData(metrics) =>
               LET s == SumValues(MemoryInWindow)
                   n == Len(MemoryInWindow)
               IN  /\ Fired("Memoria critica") = (n > 0 /\ s > 90 * n)
                   /\ Fired("Memoria alta") = (n > 0 /\ s > 85 * n /\ s <= 90 * n)

\* memory samples in the window with a mean above 90, a cpu array whose only
\* samples are older than the window, and no memory factor
C8_MemoryHighCpuOutOfWindow ==
    /\ Ran /\ ~AwaitingData(metrics)
    /\ metrics.cpu # <<>> /\ CpuWindow = {}
    /\ MemoryInWindow # <<>>
    /\ SumValues(MemoryInWindow) > 90 * Len(MemoryInWindow)
    /\ Texts(prediction.factors) \cap MemoryTexts = {}

----------------------------------------------------------------------------
(* C9 *)

\* C9: the call never throws; for a null argument and for every object, also
\* one that lacks its latency, cpu or memory array, it returns a result.
C9_NeverThrows ==
    pc = "done" /\ "ping" \notin metrics.missing => prediction.status = "ok"


----------------------------------------------------------------------------
(* C6 *)

PingWindow5 == InWindow(metrics.ping, now - 5 * MinuteMs)

\* position i holds one of the three most recent samples of the window
AmongLatestThree(i) ==
    Cardinality({j \in PingWindow5 :
                     metrics.ping[j].timestamp > metrics.ping[i].timestamp}) < 3

\* C6: the consecutive-failure rule fires exactly when the 5 minute window
\* holds at least 3 ping samples and the three with the greatest timestamps
\* all have value 0, wherever they stand in the array.
C6_LatestThreeDecide ==
    Ran /\ ~AwaitingData(metrics) =>
        Fired("3+ falhas consecutivas de ping") =
            /\ Cardinality(PingWindow5) >= 3
            /\ \A i \in PingWindow5 : AmongLatestThree(i) => metrics.ping[i].value = 0

----------------------------------------------------------------------------
(* C7 *)

Consecutive(r) == "3+ falhas consecutivas de ping" \in Texts(r.factors)

\* two runs on inputs that differ in the ping array alone, the failure rate
\* of the second two tenths above that of the first
RatesCompared ==
    /\ Ran /\ baseline.status = "set" /\ baseline.prediction.status = "ok"
    /\ baseline.metrics.latency = metrics.latency
    /\ baseline.metrics.cpu = metrics.cpu
    /\ baseline.metrics.memory = metrics.memory
    /\ RateTenths(baseline.metrics.ping, now) \in {2, 4}
    /\ RateTenths(metrics.ping, now) = RateTenths(baseline.metrics.ping, now) + 2

\* C7 as stated: with the other signals and the clock fixed, a ping sequence
\* of failure rate 0.4 never scores below one of rate 0.2, nor one of rate 0.6
\* below one of rate 0.4.
C7_MonotoneInRate ==
    RatesCompared => baseline.prediction.riskScore <= prediction.riskScore

\* C7 as amended: the same, for pairs of ping sequences in which the
\* consecutive-failure rule fires on the higher rate whenever it fires on the
\* lower one.
C7_MonotoneInRateSameTail ==
    RatesCompared /\ (Consecutive(baseline.prediction) => Consecutive(prediction))
        => baseline.prediction.riskScore <= prediction.riskScore

\* the rate tier rose from 40 to 60 points while the consecutive-failure
\* rule fired on both sequences
C7_HigherTierBothConsecutive ==
    /\ RatesCompared
    /\ Consecutive(baseline.prediction) /\ Consecutive(prediction)
    /\ RateTenths(metrics.ping, now) = 6
    /\ baseline.prediction.riskScore < prediction.riskScore

----------------------------------------------------------------------------
(* C11 *)

\* C11: a call leaves its argument as it was: the four arrays hold the same
\* elements in the same order after the call as before it.
C11_InputUnchanged == [][pc = "ready" /\ pc' = "done" => metrics' = metrics]_vars

\* after a call that scored, an argument whose latency, cpu and memory arrays
\* still hold a sample older than the 15 minute window
C11_OldSamplesStillThere ==
    /\ Ran /\ ~AwaitingData(metrics) /\ prediction.status = "ok"
    /\ \A f \in {"latency", "cpu", "memory"} :
           \E i \in 1..Len(metrics[f]) : metrics[f][i].timestamp < now - 15 * MinuteMs

----------------------------------------------------------------------------
(* C12 *)

PingTexts ==
    {"Alto indice de falhas de ping", "Falhas intermitentes de ping",
     "Falhas ocasionais de ping", "3+ falhas consecutivas de ping"}

LatencyTexts ==
    {"Latencia media alta", "Latencia elevada", "Picos de latencia extrema",
     "Tendencia de aumento na latencia"}

CpuTexts == {"CPU critica", "CPU alta", "Picos de CPU extrema"}

\* the samples of a signal whose timestamp is at or after now - 15 minutes
Scored(f) == {i \in 1..Len(metrics[f]) : metrics[f][i].timestamp >= now - 15 * MinuteMs}

\* the sum of the values seq holds at the positions S
RECURSIVE SumAt(_, _)
SumAt(seq, S) ==
    IF S = {} THEN 0
    ELSE LET i == CHOOSE j \in S : TRUE
         IN  seq[i].value + SumAt(seq, S \ {i})

\* C12: a sample is scored exactly when its timestamp is at or after
\* now - 15 minutes, the sample exactly at the cutoff included; a signal with
\* no such sample adds no score, no factor and no ETA; and when the ping
\* array is non-empty while no signal has such a sample the result is
\* riskScore 0, low, no factors, etaMinutes null.
C12_WindowInclusive ==
    Ran /\ ~AwaitingData(metrics) =>
        /\ Texts(prediction.factors) \cap PingTexts # {}
               <=> \E i \in Scored("ping") : metrics.ping[i].value = 0
        /\ Fired("Picos de latencia extrema")
               <=> \E i \in Scored("latency") : metrics.latency[i].value > 500
        /\ Fired("Picos de CPU extrema")
               <=> \E i \in Scored("cpu") : metrics.cpu[i].value > 95
        /\ Texts(prediction.factors) \cap MemoryTexts # {}
               <=> /\ Scored("cpu") # {}
                   /\ SumAt(metrics.memory, Scored("memory"))
                          > 85 * Cardinality(Scored("memory"))
        /\ Scored("ping") = {} => Texts(prediction.factors) \cap PingTexts = {}
        /\ \A f \in {"latency", "cpu", "memory"} :
               Scored(f) = {}
                   => SameOutcome(prediction, Predict([metrics EXCEPT ![f] = <<>>], now))
        /\ (\A f \in {"ping", "latency", "cpu", "memory"} : Scored(f) = {})
               => /\ prediction.riskScore = 0
                  /\ prediction.riskLevel = "low"
                  /\ prediction.factors = <<>>
                  /\ prediction.etaMinutes = NullEta

\* the only ping sample is one millisecond older than the window and adds
\* nothing; the only latency sample is exactly 15 minutes old and is scored
C12_CutoffSampleScored ==
    /\ Ran
    /\ metrics.ping = <<Sample(now - 15 * MinuteMs - 1, 0)>>
    /\ metrics.latency = <<Sample(now - 15 * MinuteMs, 600)>>
    /\ metrics.cpu = <<>>
    /\ Texts(prediction.factors) = {"Latencia media alta", "Picos de latencia extrema"}
    /\ prediction.riskScore = 45
    /\ prediction.etaMinutes = 10

\* every array holds a sample and none of them is inside the window
C12_NothingInWindow ==
    /\ Ran
    /\ \A f \in {"ping", "latency", "cpu", "memory"} :
           metrics[f] # <<>> /\ Scored(f) = {}
    /\ prediction.riskScore = 0

----------------------------------------------------------------------------
(* C13 *)

\* the points the rule behind each factor text adds
PointsOf(text) ==
    CASE text = "Alto indice de falhas de ping" -> 60
      [] text = "Falhas intermitentes de ping" -> 40
      [] text = "Falhas ocasionais de ping" -> 20
      [] text = "3+ falhas consecutivas de ping" -> 30
      [] text = "Latencia media alta" -> 25
      [] text = "Latencia elevada" -> 15
      [] text = "Picos de latencia extrema" -> 20
      [] text = "Tendencia de aumento na latencia" -> 15
      [] text = "CPU critica" -> 20
      [] text = "CPU alta" -> 10
      [] text = "Picos de CPU extrema" -> 15
      [] text = "Memoria critica" -> 15
      [] text = "Memoria alta" -> 8

RECURSIVE SumPoints(_)
SumPoints(factors) ==
    IF factors = <<>> THEN 0 ELSE PointsOf(Head(factors).text) + SumPoints(Tail(factors))

\* the returned score is the points of the listed factors, capped at 100
ScoreIsPointsOfFactors ==
    prediction.riskScore = MathMin(100, SumPoints(prediction.factors))

\* the failures among the ping samples of the 15 minute window
FailuresScored == {i \in Scored("ping") : metrics.ping[i].value = 0}

\* C13: with r the share of value-0 samples among the ping samples of the 15
\* minute window, r >= 0.5 adds 60 and proposes ETA 2, 0.3 <= r < 0.5 adds 40
\* and proposes ETA 5, 0 < r < 0.3 adds 20 and proposes no ETA, r = 0 adds
\* nothing; 0.5 and 0.3 themselves belong to the higher tier.
C13_PingRateLadder ==
    Ran /\ ~AwaitingData(metrics) =>
        LET f == Cardinality(FailuresScored)
            n == Cardinality(Scored("ping"))
            consecutive == Fired("3+ falhas consecutivas de ping")
        IN  /\ Fired("Alto indice de falhas de ping") <=> n > 0 /\ 10 * f >= 5 * n
            /\ Fired("Falhas intermitentes de ping")
                   <=> n > 0 /\ 10 * f < 5 * n /\ 10 * f >= 3 * n
            /\ Fired("Falhas ocasionais de ping") <=> f > 0 /\ 10 * f < 3 * n
            /\ ScoreIsPointsOfFactors
            /\ Fired("Alto indice de falhas de ping")
                   => prediction.etaMinutes = IF consecutive THEN 1 ELSE 2
            /\ Fired("Falhas intermitentes de ping")
                   => prediction.etaMinutes = IF consecutive THEN 1 ELSE 5
            /\ ~Fired("Alto indice de falhas de ping")
               /\ ~Fired("Falhas intermitentes de ping") /\ ~consecutive
                   => prediction.etaMinutes \notin 1..9

\* 3 failures among 10 samples: the rate is exactly 0.3 and the middle tier
\* is taken
C13_RateExactlyThreeTenths ==
    /\ Ran
    /\ Cardinality(Scored("ping")) = 10 /\ Cardinality(FailuresScored) = 3
    /\ Texts(prediction.factors) = {"Falhas intermitentes de ping"}
    /\ prediction.riskScore = 40
    /\ prediction.etaMinutes = 5

----------------------------------------------------------------------------
(* C14 *)

\* C14: whenever the failure rate of the 15 minute window is at least 0.5 and
\* the three most recent ping samples of the last 5 minutes are all failures,
\* the result has riskScore >= 90, riskLevel critical and etaMinutes 1,
\* whatever the other signals hold.
C14_BothPingRulesCritical ==
    /\ Ran /\ ~AwaitingData(metrics)
    /\ 10 * Cardinality(FailuresScored) >= 5 * Cardinality(Scored("ping"))
    /\ Cardinality(PingWindow5) >= 3
    /\ \A i \in PingWindow5 : AmongLatestThree(i) => metrics.ping[i].value = 0
    => /\ prediction.riskScore >= 90
       /\ prediction.riskLevel = "critical"
       /\ prediction.etaMinutes = 1

----------------------------------------------------------------------------
(* C15 *)

\* C15: whenever the consecutive-failure rule fires, the returned etaMinutes
\* is 1, whatever the rules before and after it proposed.
C15_ConsecutiveGivesEtaOne ==
    Ran /\ Fired("3+ falhas consecutivas de ping") => prediction.etaMinutes = 1

\* the consecutive-failure rule fired between a rate rule proposing 5 and
\* latency and cpu rules proposing 10 and 20
C15_ConsecutiveAmongOtherEtas ==
    /\ Ran
    /\ {"Falhas intermitentes de ping", "3+ falhas consecutivas de ping",
        "Latencia media alta", "CPU critica"} \subseteq Texts(prediction.factors)
    /\ prediction.etaMinutes = 1

----------------------------------------------------------------------------
(* C16 *)

\* the texts of the factors, in their order
FactorTexts == [i \in 1..Len(prediction.factors) |-> prediction.factors[i].text]

\* no rule of the ping analysis that proposes an ETA fired
NoPingEta ==
    Texts(prediction.factors)
        \cap {"Alto indice de falhas de ping", "Falhas intermitentes de ping",
              "3+ falhas consecutivas de ping"} = {}

\* C16: over the latency samples of the 15 minute window, a mean above 200
\* adds 25 and proposes ETA 10, otherwise a mean above 100 adds 15 and no ETA
\* (strictly: a mean of 200 takes the +15 branch, a mean of 100 adds
\* nothing), and independently a maximum above 500 adds 20 and no ETA; with
\* fewer than 5 samples and no other signal contributing, mean > 200 and
\* max > 500 give riskScore 45, etaMinutes 10 and the two factors average,
\* spike in that order.
C16_LatencyRules ==
    Ran /\ ~AwaitingData(metrics) =>
        LET w == FilterSince(metrics.latency, now - 15 * MinuteMs)
            n == Len(w)
            s == SumValues(w)
            spike == \E i \in 1..n : w[i].value > 500
        IN  /\ Fired("Latencia media alta") <=> n > 0 /\ s > 200 * n
            /\ Fired("Latencia elevada") <=> n > 0 /\ s <= 200 * n /\ s > 100 * n
            /\ Fired("Picos de latencia extrema") <=> spike
            /\ ScoreIsPointsOfFactors
            /\ NoPingEta => (Fired("Latencia media alta") <=> prediction.etaMinutes = 10)
            /\ Fired("Latencia media alta") => prediction.etaMinutes \in 1..10
            /\ n < 5 /\ s > 200 * n /\ spike
               /\ Texts(prediction.factors) \subseteq LatencyTexts
                   => /\ prediction.riskScore = 45
                      /\ prediction.etaMinutes = 10
                      /\ FactorTexts = <<"Latencia media alta", "Picos de latencia extrema">>

\* a mean of exactly 200: the single sample of 200 takes the lower branch,
\* adds 15 and leaves the ETA null
C16_MeanExactlyTwoHundred ==
    /\ Ran
    /\ metrics.latency = <<Sample(now - MinuteMs, 200)>>
    /\ metrics.cpu = <<>>
    /\ metrics.ping = <<Sample(now - MinuteMs, 1)>>
    /\ FactorTexts = <<"Latencia elevada">>
    /\ prediction.riskScore = 15
    /\ prediction.etaMinutes = NullEta

\* the worked case: mean above 200, maximum above 500, nothing else
C16_AverageAndSpikeAlone ==
    /\ Ran
    /\ FactorTexts = <<"Latencia media alta", "Picos de latencia extrema">>
    /\ prediction.riskScore = 45
    /\ prediction.etaMinutes = 10

----------------------------------------------------------------------------
(* C17 *)

LatencyScored == Scored("latency")

\* the floor(n/2) chronologically earliest latency samples of the window
EarlierHalf ==
    {i \in LatencyScored :
        Cardinality({j \in LatencyScored :
                         metrics.latency[j].timestamp < metrics.latency[i].timestamp})
            < Cardinality(LatencyScored) \div 2}

LaterHalf == LatencyScored \ EarlierHalf

\* C17: the trend rule is evaluated only with at least 5 latency samples in
\* the window; it compares the mean of the floor(n/2) chronologically
\* earliest samples with the mean of the remaining, later ones and fires
\* (+15, ETA 15) exactly when the later mean exceeds 1.3 times the earlier
\* mean, so it never fires when latency went down.
C17_TrendIsChronological ==
    Ran /\ ~AwaitingData(metrics) =>
        (Fired("Tendencia de aumento na latencia")
            <=> /\ Cardinality(LatencyScored) >= 5
                /\ 10 * SumAt(metrics.latency, LaterHalf) * Cardinality(EarlierHalf)
                       > 13 * SumAt(metrics.latency, EarlierHalf) * Cardinality(LaterHalf))

----------------------------------------------------------------------------
(* C18 *)

\* C18: over the cpu samples of the 15 minute window, a mean above 90 adds 20
\* and proposes ETA 20, otherwise a mean above 80 adds 10 and no ETA
\* (strictly), and independently a maximum above 95 adds 15 and no ETA; with
\* no other signal contributing, mean > 90 and max > 95 give riskScore 35,
\* etaMinutes 20 and exactly the two cpu factors.
C18_CpuRules ==
    Ran /\ ~AwaitingData(metrics) =>
        LET w == FilterSince(metrics.cpu, now - 15 * MinuteMs)
            n == Len(w)
            s == SumValues(w)
            spike == \E i \in 1..n : w[i].value > 95
        IN  /\ Fired("CPU critica") <=> n > 0 /\ s > 90 * n
            /\ Fired("CPU alta") <=> n > 0 /\ s <= 90 * n /\ s > 80 * n
            /\ Fired("Picos de CPU extrema") <=> spike
            /\ ScoreIsPointsOfFactors
            /\ Fired("CPU critica") => prediction.etaMinutes \in 1..20
            /\ NoPingEta /\ Texts(prediction.factors) \cap LatencyTexts = {}
                   => prediction.etaMinutes = IF Fired("CPU critica") THEN 20 ELSE NullEta
            /\ s > 90 * n /\ spike /\ Texts(prediction.factors) \subseteq CpuTexts
                   => /\ prediction.riskScore = 35
                      /\ prediction.etaMinutes = 20
                      /\ FactorTexts = <<"CPU critica", "Picos de CPU extrema">>

\* the worked case: with the samples 96 and 90 the mean is 93, both cpu
\* rules fire and nothing else does
C18_AverageAndSpikeAlone ==
    /\ Ran
    /\ metrics.cpu = <<Sample(now - MinuteMs, 96), Sample(now - MinuteMs, 90)>>
    /\ FactorTexts = <<"CPU critica", "Picos de CPU extrema">>
    /\ prediction.riskScore = 35
    /\ prediction.etaMinutes = 20

\* a mean of exactly 90 takes the lower branch
C18_MeanExactlyNinety ==
    /\ Ran
    /\ metrics.cpu = <<Sample(now - MinuteMs, 90)>>
    /\ FactorTexts = <<"CPU alta">>
    /\ prediction.riskScore = 10
    /\ prediction.etaMinutes = NullEta

----------------------------------------------------------------------------
(* C19 *)

\* the argument with its memory array emptied
WithoutMemory == [metrics EXCEPT !.memory = <<>>]

\* C19: when it is evaluated (cpu window and memory window non-empty) the
\* memory rule adds 15 if the mean of the memory window is above 90,
\* otherwise 8 if it is above 85, otherwise nothing; it appends at most one
\* factor and never changes etaMinutes: the ETA equals the ETA of the same
\* input with the memory array emptied.
C19_MemoryRule ==
    Ran /\ ~AwaitingData(metrics) =>
        LET r0 == Predict(WithoutMemory, now)
            w == FilterSince(metrics.memory, now - 15 * MinuteMs)
            n == Len(w)
            s == SumValues(w)
            evaluated == Scored("cpu") # {} /\ n > 0
            add == IF evaluated /\ s > 90 * n THEN 15
                   ELSE IF evaluated /\ s > 85 * n THEN 8
                   ELSE 0
        IN  /\ r0.status = "ok"
            /\ prediction.riskScore = MathMin(100, r0.riskScore + add)
            /\ Fired("Memoria critica") <=> add = 15
            /\ Fired("Memoria alta") <=> add = 8
            /\ Len(prediction.factors) = Len(r0.factors) + (IF add > 0 THEN 1 ELSE 0)
            /\ SubSeq(prediction.factors, 1, Len(r0.factors)) = r0.factors
            /\ prediction.etaMinutes = r0.etaMinutes

\* memory above 90 on average is the only thing that fired: 15 points, one
\* factor, and the ETA is still null
C19_CriticalMemoryNoEta ==
    /\ Ran
    /\ FactorTexts = <<"Memoria critica">>
    /\ prediction.riskScore = 15
    /\ prediction.etaMinutes = NullEta

\* a mean of exactly 90 takes the lower branch
C19_MeanExactlyNinety ==
    /\ Ran
    /\ metrics.memory = <<Sample(now - MinuteMs, 90)>>
    /\ Fired("Memoria alta")

----------------------------------------------------------------------------
(* C20 *)

\* a ping array that keeps the predictor scoring and adds nothing
QuietPing == <<Sample(now, 1)>>

\* a cpu array that says no more than whether the cpu window is empty
CpuPresence == IF Scored("cpu") # {} THEN <<Sample(now, 0)>> ELSE <<>>

\* what each signal gives when the other signals are silent
PingAlone == Predict(Metrics(metrics.ping, <<>>, <<>>, <<>>), now)
LatencyAlone == Predict(Metrics(QuietPing, metrics.latency, <<>>, <<>>), now)
CpuAlone == Predict(Metrics(QuietPing, <<>>, metrics.cpu, <<>>), now)
MemoryAlone == Predict(Metrics(QuietPing, <<>>, CpuPresence, metrics.memory), now)

\* C20: the returned riskScore is min(100, P + L + C + M), where P depends on
\* the ping samples alone, L on the latency samples alone, C on the cpu
\* samples alone and M on the memory samples and on whether the cpu window is
\* empty; the factors are the signals' own factors one after the other, so a
\* change in one signal changes no other signal's points or factors.
C20_ScoreIsSumOfSignals ==
    Ran /\ ~AwaitingData(metrics) =>
        /\ prediction.riskScore =
               MathMin(100, PingAlone.riskScore + LatencyAlone.riskScore
                                + CpuAlone.riskScore + MemoryAlone.riskScore)
        /\ prediction.factors =
               PingAlone.factors \o LatencyAlone.factors
                   \o CpuAlone.factors \o MemoryAlone.factors

\* all four signals contribute and the sum stays below the cap
C20_FourSignalsBelowCap ==
    /\ Ran
    /\ \A S \in {PingTexts, LatencyTexts, CpuTexts, MemoryTexts} :
           Texts(prediction.factors) \cap S # {}
    /\ prediction.riskScore < 100

\* the ping rules alone reach the critical class and the cpu rules still add
C20_CpuAfterCriticalPing ==
    /\ Ran
    /\ PingAlone.riskScore >= 80
    /\ CpuAlone.riskScore > 0
    /\ LatencyAlone.riskScore = 0
    /\ prediction.riskScore = 100

----------------------------------------------------------------------------
(* C21 *)

\* C21: two calls for different inputs share no mutable state: however their
\* steps interleave, each returns what it returns when it runs alone on its
\* argument at its clock value.
C21_CallsIndependent ==
    \A i \in 1..Len(calls) :
        calls[i].at = "done"
            => calls[i].result = Predict(calls[i].metrics, calls[i].clock)

\* both calls returned after running while the other was in progress, on
\* different arguments, each with a score of its own
C21_BothReturnedAfterOverlap ==
    /\ Len(calls) = 2
    /\ \A i \in 1..2 :
           /\ calls[i].at = "done" /\ calls[i].overlapped
           /\ calls[i].result.status = "ok"
           /\ calls[i].result.riskScore > 0
    /\ calls[1].result.riskScore # calls[2].result.riskScore

----------------------------------------------------------------------------
(* C22 *)

OnPage == pc = "page" /\ page.selectedHost # ""

\* the query of the selected host and time range
CurrentQuery == page.cache[CurrentKey(page)]

\* C22: after a refresh tick on which a bundle arrived for the selected host,
\* the prediction shown was computed by a call of the predictor made at or
\* after that tick, so against the clock of that tick or a later one, also
\* when the bundle is equal in content to the one before.
C22_RecomputedOnArrival ==
    OnPage /\ CurrentQuery.data # NoData /\ CurrentQuery.fresh
        => prediction.status = "ok" /\ prediction.lastUpdate = now

----------------------------------------------------------------------------
(* C23 *)

IsDefault(r) ==
    /\ r.status = "ok"
    /\ r.riskScore = 0 /\ r.riskLevel = "low"
    /\ r.factors = <<>> /\ r.etaMinutes = NullEta

\* C23: when the fetch of the critical history fails, at the first fetch or
\* at a refetch after earlier successes, the predictor receives null and the
\* prediction is the default result.
C23_FailureGivesDefault ==
    OnPage /\ CurrentQuery.failed /\ CurrentKey(page) \notin page.inflight
        => metrics.isNull /\ IsDefault(prediction)

----------------------------------------------------------------------------
(* C28 *)

\* C28: whatever the host selections, time range changes, fetch completions
\* and refetches, the prediction of the page is computed from a bundle
\* fetched for the selected host and time range, or is the default result;
\* never from the bundle of a host or time range selected before.
C28_PredictionOfSelectedHost ==
    OnPage =>
        /\ prediction = Predict(metrics, prediction.lastUpdate)
        /\ \/ metrics.isNull /\ page.memoKey = NoKey /\ IsDefault(prediction)
           \/ /\ page.memoKey = CurrentKey(page)
              /\ CurrentQuery.data = Bundle(page.selectedHost, page.timeRange, metrics)

\* the second host is selected after the first host's bundle was shown, its
\* own bundle has arrived and is the one the prediction comes from, while a
\* request for the first host is still in flight
C28_SecondHostShown ==
    /\ OnPage
    /\ page.selectedHost = Hosts[2]
    /\ page.memoKey = CurrentKey(page)
    /\ Fired("Latencia media alta")
    /\ page.cache[QueryKey(Hosts[1], page.timeRange)].data # NoData
    /\ \E r \in TimeRanges : QueryKey(Hosts[1], r) \in page.inflight

----------------------------------------------------------------------------
(* C24 *)

NonDecreasing(seq) ==
    \A i, j \in 1..Len(seq) : i < j => seq[i].timestamp <= seq[j].timestamp

\* C24: each of the four sequences getCriticalHistory delivers to the
\* predictor is non-decreasing in timestamp, also when the histories of
\* several items are concatenated.
C24_DeliveredAscending ==
    pc \in {"ready", "done"} /\ zabbix # NoHistory /\ ~metrics.isNull
        => \A f \in {"ping", "latency", "cpu", "memory"} : NonDecreasing(metrics[f])

----------------------------------------------------------------------------
(* C25 *)

Signals == {"ping", "latency", "cpu", "memory"}

\* the argument without the samples older than now - 15 minutes of the
\* signals in S
DropOld(m, S) ==
    LET kept(f) == IF f \in S THEN FilterSince(m[f], now - 15 * MinuteMs) ELSE m[f]
    IN  Metrics(kept("ping"), kept("latency"), kept("cpu"), kept("memory"))

SameScoring(r1, r2) ==
    /\ r1.status = "ok" /\ r2.status = "ok"
    /\ r1.riskScore = r2.riskScore
    /\ r1.riskLevel = r2.riskLevel
    /\ r1.etaMinutes = r2.etaMinutes
    /\ r1.factors = r2.factors

\* C25: with a non-empty ping array, removing (or adding back) the samples
\* older than now - 15 minutes of any signals leaves riskScore, riskLevel,
\* etaMinutes and factors as they are, also when that empties the ping array
\* or the memory array.
C25_OldSamplesIgnored ==
    Ran /\ ~AwaitingData(metrics) =>
        \A S \in SUBSET Signals : SameScoring(prediction, Predict(DropOld(metrics, S), now))

\* the part of the property that holds: the removals and additions that
\* leave the ping array non-empty on both sides, those that empty the
\* memory, cpu or latency array included
C25_OldSamplesIgnoredWhilePingStays ==
    Ran /\ ~AwaitingData(metrics) =>
        \A S \in SUBSET Signals :
            DropOld(metrics, S).ping # <<>>
                => SameScoring(prediction, Predict(DropOld(metrics, S), now))

\* ping and cpu have a sample in the window, the memory array holds only a
\* sample older than the window (removing it empties the array), and the
\* result has a score
C25_OnlyOldMemory ==
    /\ Ran
    /\ Scored("ping") # {} /\ Scored("cpu") # {}
    /\ metrics.memory # <<>> /\ Scored("memory") = {}
    /\ prediction.riskScore > 0

----------------------------------------------------------------------------
(* C26 *)

\* the rule a factor text belongs to: 1 ping rate, 2 consecutive failures,
\* 3 latency average, 4 latency spike, 5 latency trend, 6 cpu average,
\* 7 cpu spike, 8 memory
RuleOf(text) ==
    CASE text \in {"Alto indice de falhas de ping", "Falhas intermitentes de ping",
                   "Falhas ocasionais de ping"} -> 1
      [] text = "3+ falhas consecutivas de ping" -> 2
      [] text \in {"Latencia media alta", "Latencia elevada"} -> 3
      [] text = "Picos de latencia extrema" -> 4
      [] text = "Tendencia de aumento na latencia" -> 5
      [] text \in {"CPU critica", "CPU alta"} -> 6
      [] text = "Picos de CPU extrema" -> 7
      [] text \in MemoryTexts -> 8

\* C26: in every result, factors is empty exactly when riskScore is 0: each
\* rule that fires adds a positive score and exactly one factor, so there is
\* one factor per fired rule, at most 8.
C26_FactorsIffScore ==
    Ran =>
        /\ prediction.factors = <<>> <=> prediction.riskScore = 0
        /\ Len(prediction.factors) <= 8
        /\ \A i, j \in 1..Len(prediction.factors) :
               i # j => RuleOf(FactorTexts[i]) # RuleOf(FactorTexts[j])
        /\ \A i \in 1..Len(prediction.factors) : PointsOf(FactorTexts[i]) > 0
        /\ ScoreIsPointsOfFactors

\* all eight rules fired and each left its one factor
C26_EightRulesEightFactors ==
    /\ Ran
    /\ Len(prediction.factors) = 8
    /\ {RuleOf(FactorTexts[i]) : i \in 1..8} = 1..8
    /\ prediction.riskScore = 100

----------------------------------------------------------------------------
(* C27 *)

\* C27: a non-null etaMinutes is one of 1, 2, 5, 10, 15, 20 and never 0, so
\* the truthiness tests that update it and the ones that display it never
\* take a proposed ETA for an absent one; and a non-null etaMinutes comes
\* with a riskScore of at least 15.
C27_EtaValues ==
    Ran =>
        IF prediction.etaMinutes = NullEta
        THEN ~EtaBadge(prediction).shown
        ELSE /\ prediction.etaMinutes \in {1, 2, 5, 10, 15, 20}
             /\ Truthy(prediction.etaMinutes)
             /\ EtaBadge(prediction) =
                    [shown |-> TRUE,
                     text |-> [hours |-> 0, minutes |-> prediction.etaMinutes]]
             /\ prediction.riskScore >= 15

\* the trend rule alone: the lowest score that comes with an ETA
C27_TrendAlone ==
    /\ Ran
    /\ FactorTexts = <<"Tendencia de aumento na latencia">>
    /\ prediction.riskScore = 15
    /\ prediction.etaMinutes = 15
    /\ EtaBadge(prediction).shown


----------------------------------------------------------------------------
(* The earlier variant: the host offline rule and the ETA *)

\* the earlier variant has run on data that holds metrics
EarlierRan == pc = "done" /\ prediction.status = "ok" /\ ~metrics.isNull

\* the failures at the end of the last five ping samples, the history
\* being held oldest first: the most recent samples that are failures in
\* a row
TrailingFailures(ping) ==
    LET last5 == SliceLast(ping, 5)
        ok == {i \in 1..Len(last5) : last5[i].value = 1}
    IN  IF ok = {} THEN Len(last5)
        ELSE Len(last5) - (CHOOSE i \in ok : \A j \in ok : j <= i)

\* the factors of the result that carry the text
HasFactor(text) == \E i \in 1..Len(prediction.factors) : prediction.factors[i].text = text

\* C29: whenever the three most recent ping samples or more are failures
\* in a row, all five of the last five included, the host offline rule
\* fires: its factor is reported, and with no other signal the score is the
\* 40 points of the rule, so that five failures of five score no lower on
\* ping than three or four failures at the end
C29_OfflineRuleFires ==
    (EarlierRan /\ TrailingFailures(metrics.ping) >= 3) =>
        /\ HasFactor("Host offline")
        /\ (metrics.latency = <<>> /\ metrics.cpu = <<>> /\ metrics.memory = <<>>)
               => prediction.riskScore = 40

\* the ETA each rule of the earlier variant proposes, NullEta for a rule
\* that proposes none
EarlierEtaOf(text) ==
    CASE text = "Host offline" -> 0
      [] text = "Perda critica de conectividade" -> 2
      [] text = "Perda alta de conectividade" -> 5
      [] text = "Perda moderada de conectividade" -> 15
      [] text = "Latencia critica detectada" -> 5
      [] text = "Latencia muito alta" -> 10
      [] text = "Instabilidade de latencia" -> 30
      [] text = "Latencia instavel" -> 60
      [] text = "CPU critica sustentada" -> 10
      [] text = "CPU muito alta" -> 20
      [] text = "CPU frequentemente alta" -> 60
      [] text = "Memoria critica" -> 15
      [] text = "Memoria muito alta" -> 30
      [] text = "Memoria frequentemente alta" -> 90
      [] OTHER -> NullEta

EarlierProposals ==
    {EarlierEtaOf(prediction.factors[i].text) : i \in 1..Len(prediction.factors)}
        \ {NullEta}

\* C30: etaMinutes of the earlier variant is the least ETA proposed by the
\* rules that fired, null when none proposed one; once the host offline
\* rule has set it to 0 it stays 0
C30_EarlierEtaIsMinimum ==
    EarlierRan =>
        IF EarlierProposals = {} THEN prediction.etaMinutes = NullEta
        ELSE /\ prediction.etaMinutes \in EarlierProposals
             /\ \A e \in EarlierProposals : prediction.etaMinutes <= e

====
